---- MODULE Spec2Model ----
(***************************************************************************)
(* Procurement bot (src/bot.py): the access registry (UserManager), the    *)
(* order conversation (ConversationHandler + Bot handlers) and the         *)
(* delivery relay (_send_order_to_admins / _send_message_with_retry).      *)
(*                                                                         *)
(* Updates are processed one at a time (Application.builder() is built     *)
(* without concurrent_updates and every handler blocks), so each handler   *)
(* is one atomic action.  A handler that raises leaves the conversation    *)
(* state as it was: the ConversationHandler records a new state only for   *)
(* a callback that returned.                                               *)
(***************************************************************************)
EXTENDS Integers, Sequences, FiniteSets, TLC

VARIABLES
    phase,          \* "starting" | "running" | "exited" (main / Bot.__init__)
    admins,         \* UserManager.admins
    allowed_users,  \* UserManager.allowed_users
    conv,           \* ConversationHandler state per user (END when none)
    user_data,      \* context.user_data per user: a dict
    relays,         \* history: relays made for the user's current draft
    last,           \* what the last handled update did (reports, relay)
    cfg,            \* users.cfg as the last load read it (tracked in LoadSpec)
    d_pc,           \* delivery: position of _send_order_to_admins
    d_todo,         \* delivery: admin ids of the snapshot not yet visited
    d_cur,          \* delivery: {admin id being sent to} or {}
    d_attempt,      \* delivery: loop index of _send_message_with_retry
    d_call,         \* delivery: the signals and sleeps of the latest call
    d_log,          \* delivery: per admin, how the sender ended
    l_pc,           \* reload: position of Bot.reload_users / _load_users
    l_new,          \* reload: the local sets _load_users built, and the
                    \*         registry as it was when the load began
    l_obs           \* reload: what the latest reader of the registry saw

vars == <<phase, admins, allowed_users, conv, user_data, relays, last, cfg,
          d_pc, d_todo, d_cur, d_attempt, d_call, d_log, l_pc, l_new, l_obs>>

convVars == <<phase, admins, allowed_users, conv, user_data, relays, last>>
delivVars == <<d_pc, d_todo, d_cur, d_attempt, d_call, d_log>>
reloadVars == <<l_pc, l_new, l_obs>>

(***************************************************************************)
(* Bounds                                                                  *)
(***************************************************************************)
\* relays counted per draft (the confirm step can repeat without bound)
MaxRelays == 2

(***************************************************************************)
(* Program constants                                                       *)
(***************************************************************************)
max_retries == 3

Users == {1, 2}

END == "END"
SELECTING_DEPARTMENT == "SELECTING_DEPARTMENT"
ENTERING_PRODUCT == "ENTERING_PRODUCT"
ENTERING_QUANTITY == "ENTERING_QUANTITY"
SELECTING_PRIORITY == "SELECTING_PRIORITY"
CONFIRMING_ORDER == "CONFIRMING_ORDER"

OrderState == {SELECTING_DEPARTMENT, ENTERING_PRODUCT, ENTERING_QUANTITY,
               SELECTING_PRIORITY, CONFIRMING_ORDER}

(***************************************************************************)
(* Strings are sequences of tokens: single characters for configuration    *)
(* keys, words and blanks for message texts and callback payloads.         *)
(***************************************************************************)
RECURSIVE Pow2(_)
Pow2(n) == IF n = 0 THEN 1 ELSE 2 * Pow2(n - 1)

\* str.split('#')[0]
RECURSIVE BeforeHash(_)
BeforeHash(s) ==
    IF s = <<>> \/ Head(s) = "#" THEN <<>>
    ELSE <<Head(s)>> \o BeforeHash(Tail(s))

RECURSIVE LStrip(_)
LStrip(s) == IF s # <<>> /\ Head(s) = " " THEN LStrip(Tail(s)) ELSE s

RECURSIVE RStrip(_)
RStrip(s) ==
    IF s # <<>> /\ s[Len(s)] = " " THEN RStrip(SubSeq(s, 1, Len(s) - 1)) ELSE s

\* str.strip()
Strip(s) == RStrip(LStrip(s))

Digits == {"0", "1", "2", "3"}

DigitVal(c) == CASE c = "0" -> 0 [] c = "1" -> 1 [] c = "2" -> 2 [] c = "3" -> 3

RECURSIVE IntOf(_)
IntOf(s) == IF s = <<>> THEN 0 ELSE 10 * IntOf(SubSeq(s, 1, Len(s) - 1)) + DigitVal(s[Len(s)])

\* UserManager._parse_user_id: {} is None, {n} is the parsed id
parse_user_id(user_id_str) ==
    LET s == Strip(BeforeHash(user_id_str))
    IN  IF s = <<>> THEN {}
        ELSE IF \A i \in 1..Len(s) : s[i] \in Digits THEN {IntOf(s)} ELSE {}

(***************************************************************************)
(* users.cfg as ConfigParser(allow_no_value=True) yields it: the sections  *)
(* present and the keys of each; error is a file ConfigParser rejects.     *)
(***************************************************************************)
AdminKeys == { <<"1">>, <<"2", " ", "#", "b">>, <<"x", "1">> }
UserKeys == { <<"2">>, <<"u">> }

Configs ==
    [error : {FALSE}, sections : SUBSET {"ADMINS", "USERS"},
     ADMINS : SUBSET AdminKeys, USERS : SUBSET UserKeys]
    \cup
    [error : {TRUE}, sections : {{}}, ADMINS : {{}}, USERS : {{}}]

\* keys of a section, none when the section is missing
SectionKeys(config, name) ==
    IF name \in config.sections THEN config[name] ELSE {}

ParsedIds(keys) == UNION { parse_user_id(k) : k \in keys }

\* (variant: the check `if not admins` is missing)
load_users_keeps_empty(config) ==
    LET adm == ParsedIds(SectionKeys(config, "ADMINS"))
        usr == ParsedIds(SectionKeys(config, "USERS"))
    IN  IF config.error
        THEN [raised |-> TRUE, admins |-> {}, allowed_users |-> {}]
        ELSE [raised |-> FALSE, admins |-> adm, allowed_users |-> usr \cup adm]

\* (variant: the administrators are not added to the allowed users)
load_users_without_admins(config) ==
    LET adm == ParsedIds(SectionKeys(config, "ADMINS"))
        usr == ParsedIds(SectionKeys(config, "USERS"))
    IN  IF config.error \/ adm = {}
        THEN [raised |-> TRUE, admins |-> {}, allowed_users |-> {}]
        ELSE [raised |-> FALSE, admins |-> adm, allowed_users |-> usr]

\* UserManager._load_users: the registry it installs, or a raise
load_users(config) ==
    LET adm == ParsedIds(SectionKeys(config, "ADMINS"))
        usr == ParsedIds(SectionKeys(config, "USERS"))
    IN  IF config.error \/ adm = {}
        THEN [raised |-> TRUE, admins |-> {}, allowed_users |-> {}]
        ELSE [raised |-> FALSE, admins |-> adm, allowed_users |-> usr \cup adm]

is_admin(user_id) == user_id \in admins
is_allowed(user_id) == user_id \in allowed_users
get_admin_ids == admins

(***************************************************************************)
(* Outbound transport: what bot.send_message answers to one attempt.       *)
(* "ok" returns; "rate_limit" raises RetryAfter; "transient" raises        *)
(* TimedOut / NetworkError; "permanent" raises any other exception.        *)
(***************************************************************************)
Signals == {"ok", "rate_limit", "transient", "permanent"}

NoSleep == [kind |-> "none", secs |-> 0]

\* (variant: the last transient failure sleeps and continues, too)
send_attempt_extra_retry(attempt, signal) ==
    CASE signal = "ok" -> [ctl |-> "return", sleep |-> NoSleep]
      [] signal = "rate_limit" ->
            [ctl |-> "continue", sleep |-> [kind |-> "retry_after", secs |-> 0]]
      [] signal = "transient" ->
            IF attempt < max_retries
            THEN [ctl |-> "continue",
                  sleep |-> [kind |-> "backoff", secs |-> Pow2(attempt)]]
            ELSE [ctl |-> "raise", sleep |-> NoSleep]
      [] signal = "permanent" -> [ctl |-> "raise", sleep |-> NoSleep]

\* One pass of the body of `for attempt in range(max_retries)` in
\* _send_message_with_retry: what the loop does with the transport's answer.
send_attempt(attempt, signal) ==
    CASE signal = "ok" -> [ctl |-> "return", sleep |-> NoSleep]
      [] signal = "rate_limit" ->
            \* asyncio.sleep(e.retry_after); continue
            [ctl |-> "continue", sleep |-> [kind |-> "retry_after", secs |-> 0]]
      [] signal = "transient" ->
            IF attempt < max_retries - 1
            THEN [ctl |-> "continue",
                  sleep |-> [kind |-> "backoff", secs |-> Pow2(attempt)]]
            ELSE [ctl |-> "raise", sleep |-> NoSleep]
      [] signal = "permanent" -> [ctl |-> "raise", sleep |-> NoSleep]

\* The transport's answers to the successive attempts of one call; the loop
\* makes at most max_retries attempts.
Scripts == [1..max_retries -> Signals]

\* _send_message_with_retry run against a script: "sent" (returned the sent
\* message), "none" (the loop ran out and the function returned None) or
\* "raised".
RECURSIVE retry_loop(_, _)
retry_loop(script, attempt) ==
    IF attempt >= max_retries
    THEN [result |-> "none", attempts |-> attempt]
    ELSE LET step == send_attempt(attempt, script[attempt + 1])
         IN  CASE step.ctl = "return" -> [result |-> "sent", attempts |-> attempt + 1]
               [] step.ctl = "raise" -> [result |-> "raised", attempts |-> attempt + 1]
               [] step.ctl = "continue" -> retry_loop(script, attempt + 1)

send_message_with_retry(script) == retry_loop(script, 0)

\* every way one call of _send_message_with_retry can end
SendResults == { send_message_with_retry(s).result : s \in Scripts }

\* what a caller sees of one call: it returned (the sent message or None)
\* or it raised
CallOutcome(result) == IF result = "raised" THEN "raised" ELSE "returned"
CallOutcomes == { CallOutcome(x) : x \in SendResults }

\* (variant: only TimedOut / NetworkError are caught)
relay_catches_network_only(signal) == signal = "transient"

\* `except Exception` in _send_order_to_admins: does the relay catch a
\* raise of the sender
relay_catches(signal) == TRUE

\* _send_order_to_admins over the snapshot of admin ids: rel gives how the
\* sender ended for each admin; the relay raises only what it does not catch
send_order_to_admins(rel) ==
    [results |-> rel,
     raised |-> /\ \E a \in DOMAIN rel : rel[a] = "raised"
                /\ \E s \in {"transient", "permanent"} : ~relay_catches(s)]

\* update.message.reply_text and query.answer(): one direct call, no retry
DirectResults == {"returned", "raised"}

(***************************************************************************)
(* Static catalogs (messages.py): id -> display label.                     *)
(***************************************************************************)
DEPARTMENTS == (<<"it">> :> "IT")
PRIORITIES == (<<"high">> :> "High")

\* payloads of button presses a client can send
CallbackData ==
    { <<"dept_", "it">>, <<"dept_", "zz">>,
      <<"priority_", "high">>, <<"priority_", "zz">>,
      <<"confirm_", "yes">>, <<"confirm_", "no">> }

\* texts of plain (non-command) messages
Texts == { <<" ", "Mouse", " ">> }

\* datetime.now().strftime(...)
Times == {"t1"}

\* CallbackQueryHandler(pattern="^dept_"): re.match on the payload
Matches(pattern, data) == data # <<>> /\ Head(data) = pattern

\* str.replace(old, ""): every occurrence goes
Replace(data, old) == SelectSeq(data, LAMBDA t : t # old)

(***************************************************************************)
(* context.user_data: a dict                                               *)
(***************************************************************************)
EmptyDict == <<>>

Put(d, k, v) == [x \in DOMAIN d \cup {k} |-> IF x = k THEN v ELSE d[x]]

\* context.user_data.get('order_in_progress') is truthy
InProgress(d) == "order_in_progress" \in DOMAIN d /\ d["order_in_progress"] = TRUE

\* the lookups of priority_selected / confirm_order raise no KeyError
HasOrderFields(d) ==
    /\ {"department", "product", "quantity", "priority"} \subseteq DOMAIN d
    /\ d["department"] \in DOMAIN DEPARTMENTS
    /\ d["priority"] \in DOMAIN PRIORITIES

\* ORDER_TEMPLATE.format(...)
OrderMessage(user, d, date) ==
    [user_name |-> user,
     department |-> DEPARTMENTS[d["department"]],
     product |-> d["product"],
     quantity |-> d["quantity"],
     priority |-> PRIORITIES[d["priority"]],
     date |-> date]

NoMessage == <<>>
NoRelay == <<>>

(***************************************************************************)
(* Updates and their dispatch (Bot._setup_handlers, one handler group).    *)
(***************************************************************************)
Commands == {"order", "cancel", "reload_users"}

Updates ==
    [kind : {"command"}, name : Commands, data : {<<>>}]
    \cup [kind : {"callback"}, name : {""}, data : CallbackData]
    \cup [kind : {"text"}, name : {""}, data : Texts]

\* User 2 sends every update; user 1 stands for the other users, whose
\* conversations and drafts lie next to it, and sends commands only.
UpdatesOf(u) ==
    IF u = 2 THEN Updates ELSE { upd \in Updates : upd.kind = "command" }

\* (variant: the department handler is registered without a pattern)
StateHandler_unfiltered(state, upd) ==
    CASE state = SELECTING_DEPARTMENT /\ upd.kind = "callback"
              -> "department_selected"
      [] state = ENTERING_PRODUCT /\ upd.kind = "text" -> "product_entered"
      [] state = ENTERING_QUANTITY /\ upd.kind = "text" -> "quantity_entered"
      [] state = SELECTING_PRIORITY /\ upd.kind = "callback"
              /\ Matches("priority_", upd.data) -> "priority_selected"
      [] state = CONFIRMING_ORDER /\ upd.kind = "callback"
              /\ Matches("confirm_", upd.data) -> "confirm_order"
      [] OTHER -> "none"

\* the handler of the conversation's current state that takes the update
StateHandler(state, upd) ==
    CASE state = SELECTING_DEPARTMENT /\ upd.kind = "callback"
              /\ Matches("dept_", upd.data) -> "department_selected"
      [] state = ENTERING_PRODUCT /\ upd.kind = "text" -> "product_entered"
      [] state = ENTERING_QUANTITY /\ upd.kind = "text" -> "quantity_entered"
      [] state = SELECTING_PRIORITY /\ upd.kind = "callback"
              /\ Matches("priority_", upd.data) -> "priority_selected"
      [] state = CONFIRMING_ORDER /\ upd.kind = "callback"
              /\ Matches("confirm_", upd.data) -> "confirm_order"
      [] OTHER -> "none"

\* (variant: allow_reentry, an entry point is matched in any state)
HandlerFor_reentry(state, upd) ==
    IF upd.kind = "command" /\ upd.name = "reload_users" THEN "reload_users"
    ELSE IF upd.kind = "command" /\ upd.name = "order" THEN "order_command"
    ELSE IF state = END
    THEN CASE upd.kind = "command" /\ upd.name = "cancel" -> "cancel_not_available"
           [] OTHER -> "none"
    ELSE IF StateHandler(state, upd) # "none" THEN StateHandler(state, upd)
    ELSE CASE upd.kind = "command" /\ upd.name = "cancel" -> "cancel_command"
           [] OTHER -> "none"

\* the callback that handles the update: the first handler of the group
\* whose check matches (reload_users, the conversation, then the two
\* stand-alone command handlers)
HandlerFor(state, upd) ==
    IF upd.kind = "command" /\ upd.name = "reload_users" THEN "reload_users"
    ELSE IF state = END
    THEN CASE upd.kind = "command" /\ upd.name = "order" -> "order_command"
           [] upd.kind = "command" /\ upd.name = "cancel" -> "cancel_not_available"
           [] OTHER -> "none"
    ELSE IF StateHandler(state, upd) # "none" THEN StateHandler(state, upd)
    ELSE CASE upd.kind = "command" /\ upd.name = "cancel" -> "cancel_command"
           [] upd.kind = "command" /\ upd.name = "order" -> "order_in_progress"
           [] OTHER -> "none"

\* what the handling of one update did (prefix: the leading token of the
\* update's payload)
Handled(user, upd, handler, reports, relay, message, raised) ==
    [user |-> user, kind |-> upd.kind, name |-> upd.name,
     prefix |-> IF upd.data = <<>> THEN "" ELSE Head(upd.data),
     handler |-> handler,
     reports |-> reports, relay |-> relay, message |-> message,
     raised |-> raised]

Report(text, result) == [text |-> text, result |-> result]

NoUpdate ==
    [user |-> 0, kind |-> "", name |-> "", prefix |-> "", handler |-> "",
     reports |-> <<>>, relay |-> NoRelay, message |-> NoMessage,
     raised |-> FALSE]

NoConfig == [error |-> FALSE, sections |-> {}, ADMINS |-> {}, USERS |-> {}]

NoCall == [admin |-> 0, signals |-> <<>>, sleeps |-> <<>>]

ConvInit ==
    /\ phase = "starting"
    /\ admins = {}
    /\ allowed_users = {}
    /\ conv = [u \in Users |-> END]
    /\ user_data = [u \in Users |-> EmptyDict]
    /\ relays = [u \in Users |-> 0]
    /\ last = NoUpdate

DelivIdle ==
    /\ d_pc = "idle"
    /\ d_todo = {}
    /\ d_cur = {}
    /\ d_attempt = 0
    /\ d_call = NoCall
    /\ d_log = <<>>

\* no load under way, none made yet, nothing observed
NoLoad ==
    [raised |-> TRUE, admins |-> {}, allowed_users |-> {},
     before |-> [admins |-> {}, allowed_users |-> {}]]

ReloadIdle ==
    /\ l_pc = "idle"
    /\ l_new = NoLoad
    /\ l_obs = {}

Init == ConvInit /\ cfg = NoConfig /\ DelivIdle /\ ReloadIdle

StartupUpdate == [kind |-> "startup", name |-> "", data |-> <<>>]

\* main / Bot.__init__ / UserManager.__init__: the first load, which ended
\* as r; a raise ends the process with exit code 1
Construct(r) ==
    /\ phase = "starting"
    /\ phase' = IF r.raised THEN "exited" ELSE "running"
    /\ admins' = IF r.raised THEN admins ELSE r.admins
    /\ allowed_users' = IF r.raised THEN allowed_users ELSE r.allowed_users
    /\ last' = Handled(0, StartupUpdate, "load_users", <<>>, NoRelay,
                       NoMessage, r.raised)
    /\ UNCHANGED <<conv, user_data, relays>>

\* (variant: the command is open to every allowed user)
ReloadUsers_for_allowed(u, r, reply, reply2) ==
    /\ phase = "running"
    /\ LET upd == [kind |-> "command", name |-> "reload_users", data |-> <<>>]
       IN  IF ~is_allowed(u)
           THEN /\ last' = Handled(u, upd, "reload_users",
                                   <<Report("reload_not_admin", reply)>>,
                                   NoRelay, NoMessage, reply = "raised")
                /\ UNCHANGED <<admins, allowed_users>>
           ELSE /\ admins' = IF r.raised THEN admins ELSE r.admins
                /\ allowed_users' =
                       IF r.raised THEN allowed_users ELSE r.allowed_users
                /\ last' = Handled(u, upd, "reload_users",
                                   <<Report(IF r.raised THEN "reload_error"
                                            ELSE "reload_success", reply)>>,
                                   NoRelay, NoMessage, reply = "raised")
    /\ UNCHANGED <<phase, conv, user_data, relays>>

\* (variant: the sets are replaced before the file is validated, and the
\* failure is not reported)
ReloadUsers_unvalidated(u, r, reply, reply2) ==
    /\ phase = "running"
    /\ LET upd == [kind |-> "command", name |-> "reload_users", data |-> <<>>]
       IN  IF ~is_admin(u)
           THEN /\ last' = Handled(u, upd, "reload_users",
                                   <<Report("reload_not_admin", reply)>>,
                                   NoRelay, NoMessage, reply = "raised")
                /\ UNCHANGED <<admins, allowed_users>>
           ELSE /\ admins' = r.admins
                /\ allowed_users' = r.allowed_users
                /\ last' = Handled(u, upd, "reload_users",
                                   <<Report("reload_success", reply)>>,
                                   NoRelay, NoMessage, reply = "raised")
    /\ UNCHANGED <<phase, conv, user_data, relays>>

\* Bot.reload_users, the load (when made) ending as r.  The success reply is
\* sent inside the try block: when it raises, the except clause replies with
\* the error text (reply2), although the registry was replaced.
ReloadUsers(u, r, reply, reply2) ==
    /\ phase = "running"
    /\ LET upd == [kind |-> "command", name |-> "reload_users", data |-> <<>>]
       IN  IF ~is_admin(u)
           THEN /\ last' = Handled(u, upd, "reload_users",
                                   <<Report("reload_not_admin", reply)>>,
                                   NoRelay, NoMessage, reply = "raised")
                /\ UNCHANGED <<admins, allowed_users>>
           ELSE /\ admins' = IF r.raised THEN admins ELSE r.admins
                /\ allowed_users' =
                       IF r.raised THEN allowed_users ELSE r.allowed_users
                /\ last' =
                       IF r.raised
                       THEN Handled(u, upd, "reload_users",
                                    <<Report("reload_error", reply)>>,
                                    NoRelay, NoMessage, reply = "raised")
                       ELSE IF reply = "raised"
                       THEN Handled(u, upd, "reload_users",
                                    <<Report("reload_success", reply),
                                      Report("reload_error", reply2)>>,
                                    NoRelay, NoMessage, reply2 = "raised")
                       ELSE Handled(u, upd, "reload_users",
                                    <<Report("reload_success", reply)>>,
                                    NoRelay, NoMessage, FALSE)
    /\ UNCHANGED <<phase, conv, user_data, relays>>

\* the users.cfg files the conversation model reads: user 1 is always an
\* administrator, user 2 is unknown, allowed, or an administrator too
ConvConfigs ==
    { c \in Configs :
        \/ c.error
        \/ /\ c.sections = {"ADMINS", "USERS"}
           /\ c.ADMINS \in {{}, {<<"1">>}, {<<"1">>, <<"2", " ", "#", "b">>}}
           /\ c.USERS \in {{}, {<<"2">>}} }

\* every way one run of _load_users can end
LoadResults == { load_users(config) : config \in ConvConfigs }

Startup ==
    /\ \E r \in LoadResults : Construct(r)
    /\ UNCHANGED <<cfg, delivVars, reloadVars>>

reload_users ==
    /\ \E u \in Users, r \in LoadResults, reply \in DirectResults,
          reply2 \in DirectResults :
           ReloadUsers(u, r, reply, reply2)
    /\ UNCHANGED <<cfg, delivVars, reloadVars>>

(***************************************************************************)
(* The handlers as functions of the user's draft d, the relays n counted   *)
(* for it and the outcomes of the calls they make.  An effect is the new   *)
(* draft, the new count, the reports attempted to the user's chat, the     *)
(* relay, whether the handler raised, and the state it returns.            *)
(***************************************************************************)
Eff(d, n, reports, relay, message, raised, next) ==
    [data |-> d, relays |-> n, reports |-> reports, relay |-> relay,
     message |-> message, raised |-> raised, next |-> next]

\* a handler that raised before it sent anything
Aborted(d, n) == Eff(d, n, <<>>, NoRelay, NoMessage, TRUE, END)

\* (variant: the is_allowed check is missing)
order_command_effect_ungated(u, d, n, r) ==
    IF InProgress(d)
    THEN Eff(d, n, <<Report("already_in_progress", r)>>, NoRelay, NoMessage,
             r = "raised", END)
    ELSE Eff(Put(d, "order_in_progress", TRUE), n,
             <<Report("select_department", r)>>, NoRelay, NoMessage,
             r = "raised", SELECTING_DEPARTMENT)

\* Bot.order_command
order_command_effect(u, d, n, r) ==
    IF ~is_allowed(u)
    THEN Eff(d, n, <<Report("access_denied", r)>>, NoRelay, NoMessage,
             r = "raised", END)
    ELSE IF InProgress(d)
    THEN Eff(d, n, <<Report("already_in_progress", r)>>, NoRelay, NoMessage,
             r = "raised", END)
    ELSE Eff(Put(d, "order_in_progress", TRUE), n,
             <<Report("select_department", r)>>, NoRelay, NoMessage,
             r = "raised", SELECTING_DEPARTMENT)

\* Bot.department_selected
department_selected_effect(u, d, n, data, ans, r) ==
    IF ans = "raised" THEN Aborted(d, n)
    ELSE Eff(Put(d, "department", Replace(data, "dept_")), n,
             <<Report("enter_product", r)>>, NoRelay, NoMessage,
             r = "raised", ENTERING_PRODUCT)

\* Bot.product_entered
product_entered_effect(u, d, n, text, r) ==
    Eff(Put(d, "product", Strip(text)), n,
        <<Report("enter_quantity", r)>>, NoRelay, NoMessage,
        r = "raised", ENTERING_QUANTITY)

\* Bot.quantity_entered
quantity_entered_effect(u, d, n, text, r) ==
    Eff(Put(d, "quantity", Strip(text)), n,
        <<Report("select_priority", r)>>, NoRelay, NoMessage,
        r = "raised", SELECTING_PRIORITY)

\* Bot.priority_selected
priority_selected_effect(u, d, n, data, ans, r) ==
    LET d2 == Put(d, "priority", Replace(data, "priority_"))
    IN  IF ans = "raised" THEN Aborted(d, n)
        ELSE IF ~HasOrderFields(d2) THEN Aborted(d2, n)
        ELSE Eff(d2, n, <<Report("confirmation", r)>>, NoRelay, NoMessage,
                 r = "raised", CONFIRMING_ORDER)

\* Bot.confirm_order
confirm_order_effect(u, d, n, data, ans, rel, r, t) ==
    IF ans = "raised" THEN Aborted(d, n)
    ELSE IF data = <<"confirm_", "yes">>
    THEN IF ~HasOrderFields(d) THEN Aborted(d, n)
         ELSE LET message == OrderMessage(u, d, t)
                  relay == send_order_to_admins(rel)
              IN  IF relay.raised
                  THEN Eff(d, n + 1, <<>>, relay.results, message, TRUE, END)
                  ELSE IF r = "raised"
                  THEN Eff(d, n + 1, <<Report("order_success", r)>>,
                           relay.results, message, TRUE, END)
                  ELSE Eff(EmptyDict, 0, <<Report("order_success", r)>>,
                           relay.results, message, FALSE, END)
    ELSE IF r = "raised"
    THEN Eff(d, n, <<Report("order_cancelled", r)>>, NoRelay, NoMessage,
             TRUE, END)
    ELSE Eff(EmptyDict, 0, <<Report("order_cancelled", r)>>, NoRelay,
             NoMessage, FALSE, END)

\* (variant: the is_allowed check is missing)
cancel_command_effect_ungated(u, d, n, r) ==
    IF ~InProgress(d)
    THEN Eff(d, n, <<Report("cancel_not_available", r)>>, NoRelay, NoMessage,
             r = "raised", END)
    ELSE Eff(EmptyDict, 0, <<Report("cancel_success", r)>>, NoRelay,
             NoMessage, r = "raised", END)

\* Bot.cancel_command
cancel_command_effect(u, d, n, r) ==
    IF ~is_allowed(u)
    THEN Eff(d, n, <<Report("access_denied", r)>>, NoRelay, NoMessage,
             r = "raised", END)
    ELSE IF ~InProgress(d)
    THEN Eff(d, n, <<Report("cancel_not_available", r)>>, NoRelay, NoMessage,
             r = "raised", END)
    ELSE Eff(EmptyDict, 0, <<Report("cancel_success", r)>>, NoRelay,
             NoMessage, r = "raised", END)

\* Bot.order_in_progress (outside the conversation: no state is returned)
order_in_progress_effect(u, d, n, state, r) ==
    Eff(d, n, <<Report("already_in_progress", r)>>, NoRelay, NoMessage,
        r = "raised", state)

\* (variant: the handler clears user_data as cancel_command does)
cancel_not_available_effect_clears(u, d, n, state, r) ==
    Eff(EmptyDict, 0, <<Report("cancel_not_available", r)>>, NoRelay,
        NoMessage, r = "raised", state)

\* Bot.cancel_not_available (outside the conversation)
cancel_not_available_effect(u, d, n, state, r) ==
    Eff(d, n, <<Report("cancel_not_available", r)>>, NoRelay, NoMessage,
        r = "raised", state)

\* The update is dispatched to `handler` and the handler's effect applied:
\* the conversation moves only when the callback returned.
Apply(u, upd, handler, e) ==
    /\ phase = "running"
    /\ upd \in UpdatesOf(u)
    /\ HandlerFor(conv[u], upd) = handler
    /\ e.relays <= MaxRelays
    /\ user_data' = [user_data EXCEPT ![u] = e.data]
    /\ relays' = [relays EXCEPT ![u] = e.relays]
    /\ conv' = IF e.raised THEN conv ELSE [conv EXCEPT ![u] = e.next]
    /\ last' = Handled(u, upd, handler, e.reports, e.relay, e.message, e.raised)
    /\ UNCHANGED <<phase, admins, allowed_users, cfg, delivVars, reloadVars>>

Cmd(name) == [kind |-> "command", name |-> name, data |-> <<>>]
Callback(data) == [kind |-> "callback", name |-> "", data |-> data]
Text(data) == [kind |-> "text", name |-> "", data |-> data]

order_command ==
    \E u \in Users, r \in CallOutcomes :
        Apply(u, Cmd("order"), "order_command",
              order_command_effect(u, user_data[u], relays[u], r))

department_selected ==
    \E u \in Users, data \in CallbackData, ans \in DirectResults, r \in CallOutcomes :
        Apply(u, Callback(data), "department_selected",
              department_selected_effect(u, user_data[u], relays[u], data, ans, r))

product_entered ==
    \E u \in Users, text \in Texts, r \in CallOutcomes :
        Apply(u, Text(text), "product_entered",
              product_entered_effect(u, user_data[u], relays[u], text, r))

quantity_entered ==
    \E u \in Users, text \in Texts, r \in CallOutcomes :
        Apply(u, Text(text), "quantity_entered",
              quantity_entered_effect(u, user_data[u], relays[u], text, r))

priority_selected ==
    \E u \in Users, data \in CallbackData, ans \in DirectResults, r \in CallOutcomes :
        Apply(u, Callback(data), "priority_selected",
              priority_selected_effect(u, user_data[u], relays[u], data, ans, r))

confirm_order ==
    \E u \in Users, data \in CallbackData, ans \in DirectResults,
       rel \in [get_admin_ids -> CallOutcomes], r \in CallOutcomes, t \in Times :
        Apply(u, Callback(data), "confirm_order",
              confirm_order_effect(u, user_data[u], relays[u], data, ans, rel, r, t))

cancel_command ==
    \E u \in Users, r \in CallOutcomes :
        Apply(u, Cmd("cancel"), "cancel_command",
              cancel_command_effect(u, user_data[u], relays[u], r))

order_in_progress ==
    \E u \in Users, r \in CallOutcomes :
        Apply(u, Cmd("order"), "order_in_progress",
              order_in_progress_effect(u, user_data[u], relays[u], conv[u], r))

cancel_not_available ==
    \E u \in Users, r \in CallOutcomes :
        Apply(u, Cmd("cancel"), "cancel_not_available",
              cancel_not_available_effect(u, user_data[u], relays[u], conv[u], r))

\* an update no handler of the group takes
Unhandled ==
    \E u \in Users, upd \in Updates :
        Apply(u, upd, "none",
              Eff(user_data[u], relays[u], <<>>, NoRelay, NoMessage, FALSE, conv[u]))

Next ==
    \/ Startup
    \/ reload_users
    \/ order_command
    \/ department_selected
    \/ product_entered
    \/ quantity_entered
    \/ priority_selected
    \/ confirm_order
    \/ cancel_command
    \/ order_in_progress
    \/ cancel_not_available
    \/ Unhandled

Spec == Init /\ [][Next]_vars

(***************************************************************************)
(* The registry alone, with the file each load read kept in cfg.           *)
(***************************************************************************)
LoadStartup ==
    /\ \E config \in Configs :
           /\ Construct(load_users(config))
           /\ cfg' = config
    /\ UNCHANGED <<delivVars, reloadVars>>

LoadReload ==
    /\ \E u \in Users, config \in Configs, reply \in DirectResults,
          reply2 \in DirectResults :
           /\ ReloadUsers(u, load_users(config), reply, reply2)
           /\ cfg' = IF is_admin(u) THEN config ELSE cfg
    /\ UNCHANGED <<delivVars, reloadVars>>

LoadNext == LoadStartup \/ LoadReload

LoadSpec == Init /\ [][LoadNext]_vars

(***************************************************************************)
(* One relay, step by step: _send_order_to_admins iterates the snapshot    *)
(* of admin ids, and for each _send_message_with_retry makes its attempts, *)
(* the transport answering each with a signal.                             *)
(***************************************************************************)
RelayAdmins == {1, 2, 3}

DeliveryInit ==
    /\ phase = "running"
    /\ admins \in (SUBSET RelayAdmins) \ {{}}
    /\ allowed_users = admins
    /\ conv = [u \in Users |-> END]
    /\ user_data = [u \in Users |-> EmptyDict]
    /\ relays = [u \in Users |-> 0]
    /\ last = NoUpdate
    /\ cfg = NoConfig
    /\ d_pc = "loop"
    /\ d_todo = get_admin_ids
    /\ d_cur = {}
    /\ d_attempt = 0
    /\ d_call = NoCall
    /\ d_log = [a \in get_admin_ids |-> [result |-> "pending", attempts |-> 0]]
    /\ ReloadIdle

\* (variant: the loop looks each id up in self.admins before it sends)
relay_pending_live(todo, live) == todo \cap live

\* The ids the loop of _send_order_to_admins has still to visit: it iterates
\* the local admin_ids, the copy get_admin_ids() returned when the relay
\* began, whatever self.admins (live) is by now.
relay_pending(todo, live) == todo

\* for admin_id in admin_ids: the call of the sender starts
NextAdmin ==
    /\ d_pc = "loop"
    /\ \E a \in relay_pending(d_todo, admins) :
           /\ d_todo' = d_todo \ {a}
           /\ d_cur' = {a}
           /\ d_call' = [admin |-> a, signals |-> <<>>, sleeps |-> <<>>]
    /\ d_attempt' = 0
    /\ d_pc' = "send"
    /\ UNCHANGED <<convVars, cfg, reloadVars, d_log>>

\* one pass of the sender's loop: a send attempt and the transport's answer
SendAttempt ==
    /\ d_pc = "send"
    /\ d_attempt < max_retries
    /\ \E a \in d_cur, signal \in Signals :
         LET step == send_attempt(d_attempt, signal)
             ended == IF step.ctl = "return" THEN "sent"
                      ELSE IF step.ctl = "raise" THEN "raised" ELSE "pending"
         IN  /\ d_log' = [d_log EXCEPT ![a] =
                    [result |-> ended, attempts |-> d_log[a].attempts + 1]]
             /\ d_call' = [d_call EXCEPT
                    !.signals = Append(@, signal),
                    !.sleeps = IF step.ctl = "continue"
                               THEN Append(@, step.sleep) ELSE @]
             /\ d_attempt' = IF step.ctl = "continue" THEN d_attempt + 1
                             ELSE d_attempt
             /\ d_cur' = IF step.ctl = "continue" THEN d_cur ELSE {}
             /\ d_pc' = CASE step.ctl = "continue" -> "send"
                          [] step.ctl = "return" -> "loop"
                          [] step.ctl = "raise" ->
                                IF relay_catches(signal) THEN "loop" ELSE "raised"
    /\ UNCHANGED <<convVars, cfg, reloadVars, d_todo>>

\* range(max_retries) is used up: the sender falls out of its loop and
\* returns None
LoopExhausted ==
    /\ d_pc = "send"
    /\ d_attempt >= max_retries
    /\ \E a \in d_cur :
           d_log' = [d_log EXCEPT ![a].result = "none"]
    /\ d_cur' = {}
    /\ d_pc' = "loop"
    /\ UNCHANGED <<convVars, cfg, reloadVars, d_todo, d_attempt, d_call>>

\* the for loop of _send_order_to_admins is over
RelayReturn ==
    /\ d_pc = "loop"
    /\ relay_pending(d_todo, admins) = {}
    /\ d_pc' = "returned"
    /\ UNCHANGED <<convVars, cfg, reloadVars, d_todo, d_cur, d_attempt, d_call, d_log>>

DeliveryNext == NextAdmin \/ SendAttempt \/ LoopExhausted \/ RelayReturn

DeliverySpec == DeliveryInit /\ [][DeliveryNext]_vars

\* The relay is a coroutine the event loop keeps resuming: every send
\* attempt is answered (the transport's timeouts are finite) and every
\* sleep ends, so a step that can be taken is taken.
DeliveryFairSpec == DeliverySpec /\ WF_vars(DeliveryNext)

(***************************************************************************)
(* The relay with a reload completing while the sender waits (for the      *)
(* transport's answer or in a sleep): the only points where the relay      *)
(* gives up the event loop.                                                *)
(***************************************************************************)
\* a reload command handled to its end: _load_users installed a new registry
ReloadDuringRelay ==
    /\ d_pc = "send"
    /\ \E config \in Configs :
         LET r == load_users(config)
         IN  /\ ~r.raised
             /\ admins' = r.admins
             /\ allowed_users' = r.allowed_users
    /\ UNCHANGED <<phase, conv, user_data, relays, last, cfg, delivVars,
                   reloadVars>>

RelayReloadNext == DeliveryNext \/ ReloadDuringRelay

RelayReloadSpec == DeliveryInit /\ [][RelayReloadNext]_vars

(***************************************************************************)
(* A reload statement by statement, next to readers of the registry.       *)
(* _load_users is a plain function without an await: once the reload       *)
(* command is past its is_admin test, the sets are built and both          *)
(* attributes assigned before the event loop gets control back at the      *)
(* reply.  A reader is any handler step that evaluates is_admin or         *)
(* is_allowed; it runs only while no other coroutine holds the loop.       *)
(***************************************************************************)
Registry == [admins |-> admins, allowed_users |-> allowed_users]

NewRegistry(load) == [admins |-> load.admins, allowed_users |-> load.allowed_users]

\* (variant: readers run on another thread, at any statement)
yields_anywhere(pc) == TRUE

\* the event loop can run another coroutine: none is running, or the
\* reload command awaits its reply_text
yields(pc) == pc \in {"idle", "reply"}

ReloadStepInit ==
    /\ phase = "running"
    /\ \E config \in Configs :
         LET r == load_users(config)
         IN  /\ ~r.raised
             /\ admins = r.admins
             /\ allowed_users = r.allowed_users
    /\ conv = [u \in Users |-> END]
    /\ user_data = [u \in Users |-> EmptyDict]
    /\ relays = [u \in Users |-> 0]
    /\ last = NoUpdate
    /\ cfg = NoConfig
    /\ DelivIdle
    /\ l_pc = "idle"
    /\ l_new = [NoLoad EXCEPT !.before = Registry]
    /\ l_obs = {}

\* Bot.reload_users up to the first assignment: the is_admin test, then
\* _load_users reads the file and builds its local sets (or raises)
ReloadBegin ==
    /\ l_pc = "idle"
    /\ \E u \in Users, config \in Configs :
         LET r == load_users(config)
         IN  IF ~is_admin(u)
             THEN /\ l_new' = [NoLoad EXCEPT !.before = Registry]
                  /\ l_pc' = "reply"
             ELSE /\ l_new' = [raised |-> r.raised, admins |-> r.admins,
                               allowed_users |-> r.allowed_users,
                               before |-> Registry]
                  /\ l_pc' = IF r.raised THEN "reply" ELSE "built"
    /\ UNCHANGED <<convVars, cfg, delivVars, l_obs>>

\* self.admins = admins
AssignAdmins ==
    /\ l_pc = "built"
    /\ admins' = l_new.admins
    /\ l_pc' = "admins_assigned"
    /\ UNCHANGED <<phase, allowed_users, conv, user_data, relays, last, cfg,
                   delivVars, l_new, l_obs>>

\* self.allowed_users = allowed_users | admins
AssignAllowedUsers ==
    /\ l_pc = "admins_assigned"
    /\ allowed_users' = l_new.allowed_users
    /\ l_pc' = "reply"
    /\ UNCHANGED <<phase, admins, conv, user_data, relays, last, cfg,
                   delivVars, l_new, l_obs>>

\* await update.message.reply_text(...) is over
ReloadReply ==
    /\ l_pc = "reply"
    /\ l_pc' = "idle"
    /\ UNCHANGED <<convVars, cfg, delivVars, l_new, l_obs>>

\* a handler step evaluates is_admin / is_allowed
ReadRegistry ==
    /\ yields(l_pc)
    /\ l_obs' = {[reg |-> Registry, pc |-> l_pc, load |-> l_new]}
    /\ UNCHANGED <<convVars, cfg, delivVars, l_pc, l_new>>

ReloadStepNext ==
    \/ ReloadBegin
    \/ AssignAdmins
    \/ AssignAllowedUsers
    \/ ReloadReply
    \/ ReadRegistry

ReloadStepSpec == ReloadStepInit /\ [][ReloadStepNext]_vars

(***************************************************************************)
(* Properties                                                              *)
(***************************************************************************)
\* the texts of the reports the last update's handler attempted
ReportTexts(l) == [i \in 1..Len(l.reports) |-> l.reports[i].text]

\* the step handled command `name` from user u
HandledCommand(u, name) ==
    last'.user = u /\ last'.kind = "command" /\ last'.name = name

\* the step handled a button press or a text message from user u
HandledStateEvent(u) ==
    last'.user = u /\ last'.kind \in {"callback", "text"}

ServerUnchanged ==
    UNCHANGED <<phase, admins, allowed_users, conv, user_data, relays>>

\* C1 as stated: every start-order command of a user who is not in the
\* allowed set is answered with access-denied and leaves the conversation
\* terminal.
C1_Original ==
    [][\A u \in Users :
          (HandledCommand(u, "order") /\ ~is_allowed(u))
          => /\ ReportTexts(last') = <<"access_denied">>
             /\ conv'[u] = END]_vars

\* C1 (amended): a start-order command of a user who is not in the allowed
\* set and has no active conversation is answered with access-denied,
\* leaves the conversation terminal and the user's data as it was (no
\* field, no in-progress marker is created); a button press or text of such
\* a user changes no state and relays nothing.
C1_DeniedEntryCreatesNoDraft ==
    [][\A u \in Users :
          (~is_allowed(u) /\ conv[u] = END)
          => /\ HandledCommand(u, "order")
                => /\ ReportTexts(last') = <<"access_denied">>
                   /\ last'.relay = NoRelay
                   /\ ServerUnchanged
             /\ HandledStateEvent(u)
                => /\ last'.reports = <<>>
                   /\ last'.relay = NoRelay
                   /\ ServerUnchanged]_vars

\* a user outside the allowed set sent the start-order command and was
\* refused
C1_Witness ==
    /\ last.user = 2 /\ last.handler = "order_command"
    /\ ReportTexts(last) = <<"access_denied">>
    /\ ~is_allowed(2)
    /\ conv[2] = END
    /\ user_data[2] = EmptyDict

\* C2: a start-order command issued while the user's conversation is in a
\* non-terminal state reports "already in progress" and leaves that state
\* and the user's draft (department, product, quantity, priority) as they
\* were.
C2_ReentryLeavesDraft ==
    [][\A u \in Users :
          (HandledCommand(u, "order") /\ conv[u] \in OrderState)
          => /\ ReportTexts(last') = <<"already_in_progress">>
             /\ last'.relay = NoRelay
             /\ conv'[u] = conv[u]
             /\ user_data'[u] = user_data[u]
             /\ ServerUnchanged]_vars

\* a second start-order command arrived after the quantity was entered
C2_Witness ==
    /\ last.user = 2 /\ last.handler = "order_in_progress"
    /\ conv[2] = SELECTING_PRIORITY
    /\ {"department", "product", "quantity"} \subseteq DOMAIN user_data[2]

\* C3: an order a user completes is relayed exactly once, never a second
\* time: no draft is ever relayed twice.
C3_RelayedOncePerOrder ==
    \A u \in Users : relays[u] <= 1

\* C4: a confirm or reject selection handled in ConfirmingOrder, whose
\* handler got as far as its report to the submitter, ends with the draft
\* discarded and the conversation terminal, whatever the outcome of the
\* sends.
C4_ConfirmAlwaysDiscards ==
    [][\A u \in Users :
          (last'.user = u /\ last'.handler = "confirm_order"
             /\ last'.reports # <<>>)
          => /\ conv'[u] = END
             /\ user_data'[u] = EmptyDict]_vars

\* C5: an explicit cancel command of an allowed user whose conversation is
\* in a non-terminal state and whose draft is in progress discards the
\* draft, reports cancellation and moves the conversation to terminal.
C5_CancelEndsConversation ==
    [][\A u \in Users :
          (HandledCommand(u, "cancel") /\ conv[u] \in OrderState
             /\ is_allowed(u) /\ InProgress(user_data[u]))
          => /\ ReportTexts(last') = <<"cancel_success">>
             /\ user_data'[u] = EmptyDict
             /\ conv'[u] = END]_vars

\* C6: a cancel command of a user who has no active conversation reports
\* "nothing to cancel" and changes nothing: not that user's data, not
\* another user's draft or conversation, not the registry.
C6_CancelOutsideChangesNothing ==
    [][\A u \in Users :
          (HandledCommand(u, "cancel") /\ conv[u] = END)
          => /\ ReportTexts(last') = <<"cancel_not_available">>
             /\ last'.relay = NoRelay
             /\ ServerUnchanged]_vars

\* a user with data left over and no conversation sent cancel while the
\* other user's order was under way
C6_Witness ==
    /\ last.user = 1 /\ last.handler = "cancel_not_available"
    /\ conv[1] = END
    /\ InProgress(user_data[1])
    /\ conv[2] = CONFIRMING_ORDER
    /\ HasOrderFields(user_data[2])

\* the latest call of the sender got only signals of `kinds`
OnlySignals(kinds) ==
    \A i \in 1..Len(d_call.signals) : d_call.signals[i] \in kinds

CountSignals(kind) ==
    Cardinality({ i \in 1..Len(d_call.signals) : d_call.signals[i] = kind })

\* C7: the relay of one order never raises to its caller, and when it
\* returns a send was attempted to every administrator of the set,
\* whatever the outcome for the others.
C7_RelayAttemptsAllAdmins ==
    /\ d_pc # "raised"
    /\ d_pc = "returned"
       => \A a \in get_admin_ids : d_log[a].attempts >= 1

\* three admins, the send to the second failed for good, the first and the
\* third got the message, and the relay returned
C7_Witness ==
    /\ d_pc = "returned"
    /\ get_admin_ids = {1, 2, 3}
    /\ d_log[2].result = "raised" /\ d_log[2].attempts = 1
    /\ d_log[1].result = "sent"
    /\ d_log[3].result = "sent"

\* C8: rate-limit signals do not use up the retry budget: a call that has
\* got no success, no permanent failure and fewer than max_retries
\* transient failures is still trying to send (it has neither returned
\* without sending nor raised).
C8_RateLimitKeepsBudget ==
    (/\ d_call.admin # 0
     /\ OnlySignals({"rate_limit", "transient"})
     /\ CountSignals("transient") < max_retries)
    => d_log[d_call.admin].result = "pending"

\* C9: a call answered only with transient failures makes exactly
\* max_retries send attempts: before the last one it is still trying, after
\* it the sender has raised, no further attempt is made for that recipient,
\* and the relay goes on (it does not raise).
C9_TransientExhaustsBudget ==
    (d_call.admin # 0 /\ OnlySignals({"transient"}))
    => LET n == Len(d_call.signals)
           log == d_log[d_call.admin]
       IN  /\ n <= max_retries
           /\ log.attempts = n
           /\ n < max_retries => log.result = "pending" /\ d_pc = "send"
           /\ n = max_retries
              => /\ log.result = "raised"
                 /\ d_pc \in {"loop", "returned"}

\* the first of two admins was unreachable for all max_retries attempts,
\* and the relay is about to go on to the other
C9_Witness ==
    /\ d_call.admin # 0
    /\ d_call.signals = <<"transient", "transient", "transient">>
    /\ d_log[d_call.admin].result = "raised"
    /\ d_pc = "loop"
    /\ d_todo # {}

(***************************************************************************)
(* What the keys of the model's users.cfg files are, as integers: read     *)
(* off the keys, not computed by _parse_user_id.                           *)
(***************************************************************************)
KeyMeans ==
    (<<"1">> :> {1}) @@ (<<"2", " ", "#", "b">> :> {2}) @@ (<<"x", "1">> :> {})
    @@ (<<"2">> :> {2}) @@ (<<"u">> :> {})

\* the valid identifiers of the administrators section of a file
ValidAdminIds(config) ==
    IF config.error \/ "ADMINS" \notin config.sections THEN {}
    ELSE UNION { KeyMeans[k] : k \in config.ADMINS }

\* the step ran _load_users (at startup, or on an administrator's reload)
LoadRan ==
    \/ last'.handler = "load_users"
    \/ /\ last'.handler = "reload_users"
       /\ ReportTexts(last') # <<"reload_not_admin">>

LoadFailed ==
    IF last'.handler = "load_users" THEN last'.raised
    ELSE ReportTexts(last') = <<"reload_error">>

\* C10: a load of a file whose administrators section yields no valid
\* identifier (section missing, empty, or only unparseable lines) fails and
\* installs nothing (at startup the process exits without a registry); a
\* readable file with at least one valid administrator line loads, its
\* unparseable lines skipped.
C10_ZeroAdminsLoadFails ==
    [][LoadRan
       => /\ ValidAdminIds(cfg') = {}
             => /\ LoadFailed
                /\ UNCHANGED <<admins, allowed_users>>
                /\ phase = "starting" => phase' = "exited"
          /\ (~cfg'.error /\ ValidAdminIds(cfg') # {})
             => /\ ~LoadFailed
                /\ admins' = ValidAdminIds(cfg')
                /\ phase' = "running"]_vars

\* startup read a file whose administrators section holds one unparseable
\* line only, and the process exited without a registry
C10_Witness ==
    /\ phase = "exited"
    /\ "ADMINS" \in cfg.sections
    /\ cfg.ADMINS = {<<"x", "1">>}
    /\ admins = {} /\ allowed_users = {}

\* the identifiers the allowed-users section of a file lists
ListedUserIds(config) ==
    IF config.error \/ "USERS" \notin config.sections THEN {}
    ELSE UNION { KeyMeans[k] : k \in config.USERS }

\* C11: once the bot is constructed, and after any sequence of successful
\* and failed reloads, the administrator set is non-empty and every
\* administrator is allowed (is_allowed answers true for it), also when the
\* allowed-users section does not list it.
C11_AdminsAreAllowed ==
    phase = "running"
    => /\ admins # {}
       /\ admins \subseteq allowed_users
       /\ \A id \in Users : is_admin(id) => is_allowed(id)

\* a reload installed a file whose allowed-users section lists user 2 only,
\* and administrator 1 is allowed all the same
C11_Witness ==
    /\ phase = "running"
    /\ last.handler = "reload_users"
    /\ ReportTexts(last) = <<"reload_success">>
    /\ ListedUserIds(cfg) = {2}
    /\ is_admin(1) /\ ~is_admin(2)
    /\ is_allowed(1)

\* the step handled a reload command of user u, an administrator then
ReloadByAdmin(u) ==
    /\ last'.handler = "reload_users" /\ last'.user = u
    /\ is_admin(u)

InvalidConfig(config) == config.error \/ ValidAdminIds(config) = {}

\* C12: a reload that reads an invalid file (unreadable, or with no valid
\* administrator) leaves the administrator set and the allowed-user set as
\* they were, so is_admin and is_allowed answer as before for every
\* identifier, and the only report attempted to the invoking administrator
\* is the reload error.
C12_InvalidReloadKeepsRegistry ==
    [][\A u \in Users :
          (ReloadByAdmin(u) /\ InvalidConfig(cfg'))
          => /\ UNCHANGED <<admins, allowed_users>>
             /\ \A id \in Users :
                   /\ (id \in admins') = is_admin(id)
                   /\ (id \in allowed_users') = is_allowed(id)
             /\ ReportTexts(last') = <<"reload_error">>]_vars

\* administrator 1 reloaded an unreadable file: the error was reported and
\* user 2 is still allowed and still no administrator
C12_Witness ==
    /\ last.handler = "reload_users" /\ last.user = 1
    /\ ReportTexts(last) = <<"reload_error">>
    /\ cfg.error
    /\ admins = {1} /\ allowed_users = {1, 2}

\* C13: a reload command of a user who is no administrator at that time
\* (unknown, or allowed without being an administrator) is answered with
\* the refusal and leaves the administrator set and the allowed-user set as
\* they were; once the bot runs, the registry changes only in a step that
\* handles the reload command of an administrator.
C13_ReloadOnlyByAdmin ==
    [][/\ \A u \in Users :
            (last'.handler = "reload_users" /\ last'.user = u /\ ~is_admin(u))
            => /\ ReportTexts(last') = <<"reload_not_admin">>
               /\ UNCHANGED <<admins, allowed_users>>
       /\ (phase = "running"
             /\ <<admins', allowed_users'>> # <<admins, allowed_users>>)
          => /\ last'.handler = "reload_users"
             /\ is_admin(last'.user)]_vars

\* user 2, allowed but no administrator, sent the reload command and was
\* refused
C13_Witness ==
    /\ last.handler = "reload_users" /\ last.user = 2
    /\ ReportTexts(last) = <<"reload_not_admin">>
    /\ is_allowed(2) /\ ~is_admin(2)
    /\ admins = {1}

\* C14: whatever a reader of the registry sees, also while a reload command
\* is under way, is a whole registry: either the one in force when the
\* latest load began or the one that load built, never the new
\* administrator set next to the old allowed-user set, and never an
\* administrator that is not allowed.
C14_ReadersSeeWholeRegistry ==
    \A o \in l_obs :
        /\ o.reg.admins \subseteq o.reg.allowed_users
        /\ \/ o.reg = o.load.before
           \/ ~o.load.raised /\ o.reg = NewRegistry(o.load)

\* a reader ran while the reload command awaited its reply and saw the new
\* registry, administrators and allowed users both replaced
C14_Witness ==
    \E o \in l_obs :
        /\ o.pc = "reply"
        /\ ~o.load.raised
        /\ o.load.before = [admins |-> {1}, allowed_users |-> {1}]
        /\ o.reg = [admins |-> {1, 2}, allowed_users |-> {1, 2}]

\* the administrators a send was attempted to in this relay
Recipients == { a \in DOMAIN d_log : d_log[a].attempts >= 1 }

\* the administrator set as it was when the relay began
RelaySnapshot == DOMAIN d_log

\* C15: the recipients of one relay are the administrators of the set as it
\* was when the relay began: every send goes to one of them, and when the
\* relay returns a send was attempted to each of them, whatever reloads
\* completed while the relay was waiting.
C15_RelayUsesSnapshot ==
    /\ d_cur \subseteq RelaySnapshot
    /\ d_call.admin # 0 => d_call.admin \in RelaySnapshot
    /\ d_pc = "returned" => Recipients = RelaySnapshot

\* the relay began with administrators 1, 2 and 3, a reload left 2 as the
\* only administrator, and the relay returned with the order sent to all
\* three
C15_Witness ==
    /\ d_pc = "returned"
    /\ RelaySnapshot = {1, 2, 3}
    /\ admins = {2}
    /\ \A a \in RelaySnapshot : d_log[a].result = "sent"

\* C16 as stated: every start-order command and every cancel command of a
\* user who is not in the allowed set at that time, whatever the
\* conversation state, is answered with access-denied and leaves the
\* user's draft as it was.
C16_Original ==
    [][\A u \in Users :
          (~is_allowed(u)
             /\ (HandledCommand(u, "order") \/ HandledCommand(u, "cancel")))
          => /\ ReportTexts(last') = <<"access_denied">>
             /\ user_data'[u] = user_data[u]]_vars

\* C16 (amended): permission is checked on the start-order command that
\* would enter a conversation and on the cancel command inside a
\* conversation: a user who is not in the allowed set then is answered with
\* access-denied, the draft and every other user's state stay as they
\* were, and the conversation stays or ends.  The two commands handled
\* outside these transitions (start-order inside a conversation, cancel
\* with none) are answered without a permission check, with "already in
\* progress" and "nothing to cancel", and change nothing.
C16_DeniedAtCommandTransitions ==
    [][\A u \in Users :
          ~is_allowed(u)
          => /\ (HandledCommand(u, "order") /\ conv[u] = END)
                => /\ ReportTexts(last') = <<"access_denied">>
                   /\ ServerUnchanged
             /\ (HandledCommand(u, "cancel") /\ conv[u] \in OrderState)
                => /\ ReportTexts(last') = <<"access_denied">>
                   /\ last'.relay = NoRelay
                   /\ UNCHANGED <<phase, admins, allowed_users, user_data,
                                  relays>>
                   /\ conv' \in {conv, [conv EXCEPT ![u] = END]}
             /\ (HandledCommand(u, "order") /\ conv[u] \in OrderState)
                => /\ ReportTexts(last') = <<"already_in_progress">>
                   /\ ServerUnchanged
             /\ (HandledCommand(u, "cancel") /\ conv[u] = END)
                => /\ ReportTexts(last') = <<"cancel_not_available">>
                   /\ ServerUnchanged]_vars

\* user 2, whose access a reload revoked after the department was chosen,
\* sent cancel: access was denied, the conversation ended and the draft was
\* left as it was
C16_Witness ==
    /\ last.user = 2 /\ last.handler = "cancel_command"
    /\ ReportTexts(last) = <<"access_denied">>
    /\ ~last.raised
    /\ ~is_allowed(2)
    /\ conv[2] = END
    /\ "department" \in DOMAIN user_data[2]

\* the order of the conversation's states
NextState ==
    (SELECTING_DEPARTMENT :> ENTERING_PRODUCT)
    @@ (ENTERING_PRODUCT :> ENTERING_QUANTITY)
    @@ (ENTERING_QUANTITY :> SELECTING_PRIORITY)
    @@ (SELECTING_PRIORITY :> CONFIRMING_ORDER)
    @@ (CONFIRMING_ORDER :> END)

\* the event the state accepts: kind and leading token of its payload
AcceptedEvent ==
    (SELECTING_DEPARTMENT :> [kind |-> "callback", prefix |-> "dept_"])
    @@ (SELECTING_PRIORITY :> [kind |-> "callback", prefix |-> "priority_"])
    @@ (CONFIRMING_ORDER :> [kind |-> "callback", prefix |-> "confirm_"])

\* the step handled a button press or a text of user u that the state of
\* u's conversation does not accept
HandledForeignEvent(u) ==
    /\ HandledStateEvent(u)
    /\ conv[u] \in OrderState
    /\ IF conv[u] \in {ENTERING_PRODUCT, ENTERING_QUANTITY}
       THEN last'.kind # "text"
       ELSE \/ last'.kind # AcceptedEvent[conv[u]].kind
            \/ last'.prefix # AcceptedEvent[conv[u]].prefix

\* C17: a conversation moves only from terminal to SelectingDepartment,
\* from a state to the next one in the order SelectingDepartment,
\* EnteringProduct, EnteringQuantity, SelectingPriority, ConfirmingOrder,
\* terminal, or from any state to terminal; an event of a kind the state
\* does not accept changes neither the state nor the draft and is answered
\* with nothing; and an order is relayed only from ConfirmingOrder, so only
\* after all five states were passed in that order.
C17_StatesInOrder ==
    [][\A u \in Users :
          /\ conv'[u] # conv[u]
             => \/ conv'[u] = END
                \/ conv[u] = END /\ conv'[u] = SELECTING_DEPARTMENT
                \/ conv[u] \in OrderState /\ conv'[u] = NextState[conv[u]]
          /\ HandledForeignEvent(u)
             => /\ last'.reports = <<>>
                /\ last'.relay = NoRelay
                /\ ServerUnchanged
          /\ (last'.user = u /\ last'.relay # NoRelay)
             => /\ conv[u] = CONFIRMING_ORDER
                /\ HasOrderFields(user_data[u])]_vars

\* a priority button was pressed while the department was awaited: the
\* conversation is still in SelectingDepartment and no department is set
C17_Witness ==
    /\ last.user = 2 /\ last.kind = "callback" /\ last.prefix = "priority_"
    /\ last.handler = "none"
    /\ conv[2] = SELECTING_DEPARTMENT
    /\ "department" \notin DOMAIN user_data[2]

\* C18: in every reachable state the department of a draft, when set, is
\* one of the static department identifiers, and its priority, when set,
\* one of the static priority identifiers.
C18_DraftValuesInCatalog ==
    \A u \in Users :
        /\ "department" \in DOMAIN user_data[u]
           => user_data[u]["department"] \in DOMAIN DEPARTMENTS
        /\ "priority" \in DOMAIN user_data[u]
           => user_data[u]["priority"] \in DOMAIN PRIORITIES

\* C19: in every reachable state a user whose conversation is terminal has
\* no draft data at all, no field and no in-progress marker.
C19_TerminalHasNoDraft ==
    \A u \in Users : conv[u] = END => user_data[u] = EmptyDict

\* the waits of the latest call that followed a transient failure
BackoffWaits == SelectSeq(d_call.sleeps, LAMBDA w : w.kind = "backoff")

\* C20: for one recipient the wait after the k-th transient failure is
\* 2^(k-1) seconds (1, then 2), however many rate-limit signals came in
\* between, and the failure that ends the call is followed by no wait.
C20_BackoffDoubles ==
    d_call.admin # 0
    => /\ \A k \in 1..Len(BackoffWaits) : BackoffWaits[k].secs = Pow2(k - 1)
       /\ Len(BackoffWaits) =
             IF d_log[d_call.admin].result \in {"raised", "none"}
                /\ d_call.signals[Len(d_call.signals)] = "transient"
             THEN CountSignals("transient") - 1
             ELSE CountSignals("transient")

\* C21: a call of the per-recipient sender that has ended returned normally
\* only when its last send attempt succeeded; after any other sequence of
\* transport signals it raised.
C21_ReturnsOnlyAfterSend ==
    (d_call.admin # 0 /\ d_log[d_call.admin].result # "pending")
    => IF d_call.signals[Len(d_call.signals)] = "ok"
       THEN d_log[d_call.admin].result = "sent"
       ELSE d_log[d_call.admin].result = "raised"

\* C22, the sender and the relay: no call makes more than max_retries send
\* attempts, and the relay over the administrator set returns, whatever
\* the transport answers.
C22_RelayTerminates ==
    /\ [](\A a \in DOMAIN d_log : d_log[a].attempts <= max_retries)
    /\ <>(d_pc = "returned")

\* C22, the conversation: a confirmation whose handler made the relay
\* leaves the confirm step.
C22_ConfirmLeavesConfirmStep ==
    [][\A u \in Users :
          (last'.user = u /\ last'.handler = "confirm_order"
             /\ last'.relay # NoRelay)
          => conv'[u] # CONFIRMING_ORDER]_vars

====
